---- MODULE Spec2Model ----
(***************************************************************************)
(* Model of the SCUC/SCED simulation engine (src/simulation.ts) and of the *)
(* App component that calls it (src/unnamed/part_000).                      *)
(*                                                                         *)
(* Numbers.  A JavaScript number is modelled as a pair <<n, d>>:            *)
(*   d > 0          the rational n/d in lowest terms (exact arithmetic,     *)
(*                  rounding of binary floating point is not modelled);     *)
(*   <<1, 0>>       +Infinity,   <<-1, 0>>  -Infinity,   <<0, 0>>  NaN.     *)
(* The IEEE rules for the special values are kept: x/0, Inf-Inf, 0*Inf,     *)
(* and every comparison with NaN being false.  The sign of zero is not      *)
(* kept: every divisor of the engine is either an input or a matrix entry   *)
(* that was produced by an addition, and an addition never yields -0 from   *)
(* operands that are not both -0.                                           *)
(***************************************************************************)
EXTENDS Integers, Sequences, FiniteSets, TLC

----------------------------------------------------------------------------
(* JavaScript number arithmetic.  The operations are functions on Num, so   *)
(* that an operand is a value when the operation is applied to it.          *)

Num == Int \X Nat

NaN == <<0, 0>>
PosInf == <<1, 0>>
NegInf == <<-1, 0>>

IAbs[i \in Int] == IF i < 0 THEN -i ELSE i

ISign[i \in Int] == IF i < 0 THEN -1 ELSE IF i > 0 THEN 1 ELSE 0

GCD[a \in Nat, b \in Nat] == IF b = 0 THEN a ELSE GCD[b, a % b]

\* the rational n/d (d # 0) in lowest terms with a positive denominator
Norm[n \in Int, d \in Int] ==
    LET g == GCD[IAbs[n], IAbs[d]]
    IN  IF d < 0 THEN <<(-n) \div g, (-d) \div g>> ELSE <<n \div g, d \div g>>

R(i) == <<i, 1>>

IsNaN(a) == a = NaN

IsFinite(a) == a[2] > 0

\* sign of a value that is not NaN: -1, 0, 1
Sgn(a) == ISign[a[1]]

Neg[a \in Num] == <<-a[1], a[2]>>

Abs[a \in Num] == <<IAbs[a[1]], a[2]>>

Add[a \in Num, b \in Num] ==
    IF IsNaN(a) \/ IsNaN(b) THEN NaN
    ELSE IF IsFinite(a) /\ IsFinite(b)
         THEN Norm[a[1] * b[2] + b[1] * a[2], a[2] * b[2]]
    ELSE IF IsFinite(a) THEN b
    ELSE IF IsFinite(b) THEN a
    ELSE IF a = b THEN a ELSE NaN

Sub[a \in Num, b \in Num] == Add[a, Neg[b]]

Mul[a \in Num, b \in Num] ==
    IF IsNaN(a) \/ IsNaN(b) THEN NaN
    ELSE IF IsFinite(a) /\ IsFinite(b) THEN Norm[a[1] * b[1], a[2] * b[2]]
    ELSE IF Sgn(a) = 0 \/ Sgn(b) = 0 THEN NaN
    ELSE <<Sgn(a) * Sgn(b), 0>>

Div[a \in Num, b \in Num] ==
    IF IsNaN(a) \/ IsNaN(b) THEN NaN
    ELSE IF IsFinite(a) /\ IsFinite(b)
         THEN IF b[1] = 0 THEN <<Sgn(a), 0>>
              ELSE Norm[a[1] * b[2], a[2] * b[1]]
    ELSE IF IsFinite(a) THEN R(0)
    ELSE IF IsFinite(b) THEN <<Sgn(a) * (IF Sgn(b) < 0 THEN -1 ELSE 1), 0>>
    ELSE NaN

\* a < b, false when either is NaN
Lt[a \in Num, b \in Num] ==
    /\ ~IsNaN(a)
    /\ ~IsNaN(b)
    /\ IF IsFinite(a) /\ IsFinite(b) THEN a[1] * b[2] < b[1] * a[2]
       ELSE IF IsFinite(a) THEN b = PosInf
       ELSE IF IsFinite(b) THEN a = NegInf
       ELSE a = NegInf /\ b = PosInf

Gt[a \in Num, b \in Num] == Lt[b, a]

\* a <= b, false when either is NaN
Le[a \in Num, b \in Num] == ~IsNaN(a) /\ ~IsNaN(b) /\ ~Lt[b, a]

\* Math.min of two numbers
Min[a \in Num, b \in Num] ==
    IF IsNaN(a) \/ IsNaN(b) THEN NaN ELSE IF Lt[b, a] THEN b ELSE a

\* Body applied to the value of v
Eager(v, Body(_)) == CHOOSE r \in {Body(x) : x \in {v}} : TRUE

----------------------------------------------------------------------------
(* solveLinearSystem.  Arrays are objects: an array argument is a reference, *)
(* and a write through an alias is seen by the caller.  The heap is a        *)
(* sequence of number arrays; a matrix is a sequence of row addresses.  The  *)
(* solver's state s is [heap, M, x]: the heap, the row addresses of the      *)
(* working matrix M and the address of the working vector x.                 *)

\* [...b]: a new array holding the elements of the array at addr
CopyVector(heap, addr) ==
    [heap |-> Append(heap, heap[addr]), ref |-> Len(heap) + 1]

\* A.map(row => [...row]): a new outer array of new rows
DeepCopyRows(heap, addrs) ==
    [heap |-> heap \o [i \in 1..Len(addrs) |-> heap[addrs[i]]],
     refs |-> [i \in 1..Len(addrs) |-> Len(heap) + i]]

\* const M = [...A]: a new outer array of the same rows
ShallowWorkingCopy(args) ==
    Eager(CopyVector(args.heap, args.b), LAMBDA v :
        [heap |-> v.heap, M |-> args.A, x |-> v.ref])

\* the working copies M and x of the arguments A and b, for the heap
\* args.heap and the addresses args.A and args.b
WorkingCopy(args) ==
    Eager(DeepCopyRows(args.heap, args.A), LAMBDA m :
    Eager(CopyVector(m.heap, args.b), LAMBDA v :
        [heap |-> v.heap, M |-> m.refs, x |-> v.ref]))

\* the row that the pivot search of column i selects: the scan at row k, with
\* acc.maxEl the largest absolute value seen so far, in row acc.maxRow
RECURSIVE PivotRow(_, _, _, _)
PivotRow(s, i, k, acc0) ==
    Eager(acc0, LAMBDA acc :
        IF k > Len(s.M) THEN acc.maxRow
        ELSE Eager(Abs[s.heap[s.M[k]][i]], LAMBDA el :
                 IF Gt[el, acc.maxEl]
                 THEN PivotRow(s, i, k + 1, [maxEl |-> el, maxRow |-> k])
                 ELSE PivotRow(s, i, k + 1, acc)))

SwapElems(arr, i, j) == [arr EXCEPT ![i] = arr[j], ![j] = arr[i]]

\* the swap of the rows of M without the swap in x
SwapRowsOnly(s, i, maxRow) == [s EXCEPT !.M = SwapElems(s.M, i, maxRow)]

\* [M[i], M[maxRow]] = [M[maxRow], M[i]]; [x[i], x[maxRow]] = [x[maxRow], x[i]]
SwapRows(s, i, maxRow) ==
    [s EXCEPT !.M = SwapElems(s.M, i, maxRow),
              !.heap[s.x] = SwapElems(s.heap[s.x], i, maxRow)]

\* row k after its elimination with the pivot row rowI of column i and the
\* factor c
EliminatedRow(rowK, rowI, i, c) ==
    [j \in 1..Len(rowK) |->
        IF j < i THEN rowK[j]
        ELSE IF j = i THEN R(0)
        ELSE Add[rowK[j], Mul[c, rowI[j]]]]

\* rows k..n of column i are eliminated with pivot row i
RECURSIVE Eliminate(_, _, _)
Eliminate(s0, i, k) ==
    Eager(s0, LAMBDA s :
        IF k > Len(s.M) THEN s
        ELSE Eager(Div[Neg[s.heap[s.M[k]][i]], s.heap[s.M[i]][i]], LAMBDA c :
                 Eliminate(
                     [s EXCEPT
                        !.heap[s.M[k]] =
                            EliminatedRow(s.heap[s.M[k]], s.heap[s.M[i]], i, c),
                        !.heap[s.x][k] = Add[s.heap[s.x][k], Mul[c, s.heap[s.x][i]]]],
                     i, k + 1)))

\* the forward pass from column i on: pivot, swap, eliminate
RECURSIVE ForwardPass(_, _)
ForwardPass(s0, i) ==
    Eager(s0, LAMBDA s :
        IF i > Len(s.M) THEN s
        ELSE Eager(PivotRow(s, i, i + 1,
                            [maxEl |-> Abs[s.heap[s.M[i]][i]], maxRow |-> i]),
                   LAMBDA maxRow :
                       ForwardPass(Eliminate(SwapRows(s, i, maxRow), i, i + 1),
                                   i + 1)))

\* sum of row[j] * result[j] for j = from..n, added to acc
RECURSIVE RowDot(_, _, _, _)
RowDot(row, result, from, acc0) ==
    Eager(acc0, LAMBDA acc :
        IF from > Len(row) THEN acc
        ELSE RowDot(row, result, from + 1, Add[acc, Mul[row[from], result[from]]]))

\* back substitution of rows i..1, result holding the entries found so far
RECURSIVE BackSubstitute(_, _, _)
BackSubstitute(s, i, result0) ==
    Eager(result0, LAMBDA result :
        IF i < 1 THEN result
        ELSE BackSubstitute(s, i - 1,
                 [result EXCEPT ![i] =
                     Div[Sub[s.heap[s.x][i],
                             RowDot(s.heap[s.M[i]], result, i + 1, R(0))],
                         s.heap[s.M[i]][i]]]))

\* solveLinearSystem(A, b) for the matrix value A and the vector value b:
\* the returned vector, the contents of the arrays A and b after the call,
\* and whether the call threw (no statement of the function can throw on
\* arrays of numbers: a division by zero yields Infinity or NaN)
solveLinearSystem(A, b) ==
    Eager([heap |-> Append(A, b), A |-> [i \in 1..Len(A) |-> i], b |-> Len(A) + 1],
          LAMBDA args :
    Eager(ForwardPass(WorkingCopy(args), 1), LAMBDA s :
        [threw |-> FALSE,
         result |-> BackSubstitute(s, Len(s.M), [i \in 1..Len(s.M) |-> R(0)]),
         A |-> [i \in 1..Len(args.A) |-> s.heap[args.A[i]]],
         b |-> s.heap[args.b]]))

----------------------------------------------------------------------------
(* runSimulation: the network model, built once per call *)

\* a loop that stops one iteration early
HoursShort == 24 - 1

Hours == 24

BaseMVA == 100

slackBusIdx == 0

\* createMatrix(rows, cols, 0)
createMatrix(rows, cols) == [i \in 1..rows |-> [j \in 1..cols |-> R(0)]]

\* the forEach body of one line: the four accumulations into B
AddLine(B, f, t, susceptance) ==
    [B EXCEPT ![f][f] = Add[@, susceptance],
              ![t][t] = Add[@, susceptance],
              ![f][t] = Sub[@, susceptance],
              ![t][f] = Sub[@, susceptance]]

RECURSIVE AddLines(_, _, _)
AddLines(B0, lines, k) ==
    Eager(B0, LAMBDA B :
        IF k > Len(lines) THEN B
        ELSE AddLines(AddLine(B, lines[k].fromBus, lines[k].toBus,
                              Div[R(1), lines[k].reactance]),
                      lines, k + 1))

\* the susceptance matrix B of the system definition d
BMatrix(d) == AddLines(createMatrix(Len(d.buses), Len(d.buses)), d.lines, 1)

\* the elements of seq whose 0-based index is not slackBusIdx
DropSlack(seq) ==
    [i \in 1..(Len(seq) - 1) |-> IF i - 1 < slackBusIdx THEN seq[i] ELSE seq[i + 1]]

\* B without the row and the column of the slack bus
ReduceMatrix(B) == DropSlack([i \in 1..Len(B) |-> DropSlack(B[i])])

----------------------------------------------------------------------------
(* runSimulation: one iteration of the hour loop *)

\* Array.prototype.sort with a comparator key(a) - key(b): a stable sort, here
\* by insertion.  The elements are [key, item]: an item with the key the
\* comparator computes for it.  e goes before the first element from pos on
\* for which the comparator is negative.
RECURSIVE InsertByKey(_, _, _)
InsertByKey(sorted, e, pos) ==
    IF pos > Len(sorted) \/ Lt[Sub[e.key, sorted[pos].key], R(0)]
    THEN SubSeq(sorted, 1, pos - 1) \o <<e>> \o SubSeq(sorted, pos, Len(sorted))
    ELSE InsertByKey(sorted, e, pos + 1)

\* keyed[k..] inserted into sorted0
RECURSIVE InsertAll(_, _, _)
InsertAll(keyed, k, sorted0) ==
    Eager(sorted0, LAMBDA sorted :
        IF k > Len(keyed) THEN sorted
        ELSE InsertAll(keyed, k + 1, InsertByKey(sorted, keyed[k], 1)))

\* the items of keyed in the order of the sort
SortByKey(keyed) ==
    Eager(InsertAll(keyed, 1, <<>>), LAMBDA sorted :
        [k \in 1..Len(sorted) |-> sorted[k].item])

\* average cost at maximum output, the key of the commitment order
AvgCost(g) == Div[Add[Mul[g.costB, g.pMax], g.costC], g.pMax]

LinearCost(g) == g.costB

\* gens sorted by (a, b) => costA - costB
SortByAvgCost(gens) ==
    SortByKey([k \in 1..Len(gens) |-> [key |-> AvgCost(gens[k]), item |-> gens[k]]])

\* gens sorted by (a, b) => a.costB - b.costB
SortByLinearCost(gens) ==
    SortByKey([k \in 1..Len(gens) |-> [key |-> LinearCost(gens[k]), item |-> gens[k]]])

\* data.generators.sort(...): the array is sorted in place
CommitmentSortInPlace(gens) ==
    Eager(SortByAvgCost(gens), LAMBDA s : [sorted |-> s, input |-> s])

\* the commitment order taken by costB in place of the average cost
CommitmentSortByLinearCost(gens) ==
    [sorted |-> SortByLinearCost(gens), input |-> gens]

\* [...data.generators].sort(...): the sorted copy, and the array
\* data.generators after the statement
CommitmentSort(gens) ==
    [sorted |-> SortByAvgCost(gens), input |-> gens]

\* a function without arguments: the empty object {}
EmptyObject == [x \in {} |-> x]

\* the commitment loop over sortedGens[k..], acc holding committedCap and
\* genStatus
RECURSIVE Commit(_, _, _, _)
Commit(sortedGens, k, targetCap, acc0) ==
    Eager(acc0, LAMBDA acc :
        IF k > Len(sortedGens) THEN acc.genStatus
        ELSE IF Lt[acc.committedCap, targetCap]
             THEN Commit(sortedGens, k + 1, targetCap,
                      [committedCap |-> Add[acc.committedCap, sortedGens[k].pMax],
                       genStatus |-> (sortedGens[k].id :> TRUE) @@ acc.genStatus])
             ELSE Commit(sortedGens, k + 1, targetCap,
                      [committedCap |-> acc.committedCap,
                       genStatus |-> (sortedGens[k].id :> FALSE) @@ acc.genStatus]))

\* the committed generators in input order, without the sort
DispatchInInputOrder(gens, genStatus) ==
    SelectSeq(gens, LAMBDA g : genStatus[g.id])

\* data.generators.filter(g => genStatus[g.id]).sort((a, b) => a.costB - b.costB):
\* filter returns a new array, which is the one sorted
DispatchOrder(gens, genStatus) ==
    Eager(SelectSeq(gens, LAMBDA g : genStatus[g.id]), LAMBDA committed :
        SortByLinearCost(committed))

\* the cost of the output at pMin, without the fixed cost
MinimumOutputCostOnly(g) == Mul[g.costB, g.pMin]

\* g.costC + g.costB * g.pMin
MinimumOutputCost(g) == Add[g.costC, Mul[g.costB, g.pMin]]

\* "set all to Pmin first": the forEach over committedGens[k..], acc holding
\* genOutput, remainingLoad and systemCost
RECURSIVE SetToPMin(_, _, _)
SetToPMin(committedGens, k, acc0) ==
    Eager(acc0, LAMBDA acc :
        IF k > Len(committedGens) THEN acc
        ELSE SetToPMin(committedGens, k + 1,
                 [genOutput |-> (committedGens[k].id :> committedGens[k].pMin)
                                    @@ acc.genOutput,
                  remainingLoad |-> Sub[acc.remainingLoad, committedGens[k].pMin],
                  systemCost |-> Add[acc.systemCost,
                                     MinimumOutputCost(committedGens[k])]]))

\* the whole range of the generator taken, whatever load remains
TakeAllAvailable(available, remainingLoad) == available

\* the remaining load taken without the cap of the generator
TakeUncapped(available, remainingLoad) == remainingLoad

\* Math.min(available, remainingLoad)
Take(available, remainingLoad) == Min[available, remainingLoad]

\* "fill remaining load with cheapest available": the loop over committedGens[k..]
RECURSIVE Fill(_, _, _)
Fill(committedGens, k, acc0) ==
    Eager(acc0, LAMBDA acc :
        IF k > Len(committedGens) \/ Le[acc.remainingLoad, R(0)] THEN acc
        ELSE Eager(Take(Sub[committedGens[k].pMax, committedGens[k].pMin],
                        acc.remainingLoad),
                   LAMBDA take :
                       Fill(committedGens, k + 1,
                           [genOutput |-> [acc.genOutput EXCEPT
                                              ![committedGens[k].id] = Add[@, take]],
                            remainingLoad |-> Sub[acc.remainingLoad, take],
                            systemCost |-> Add[acc.systemCost,
                                               Mul[take, committedGens[k].costB]]])))

RECURSIVE SumSeq(_, _, _)
SumSeq(seq, k, acc0) ==
    Eager(acc0, LAMBDA acc :
        IF k > Len(seq) THEN acc ELSE SumSeq(seq, k + 1, Add[acc, seq[k]]))

\* P_inj[g.busId - 1] = genOutput[g.id]: an assignment in place of the sum
RECURSIVE InjectGenerationOverwrite(_, _, _, _, _)
InjectGenerationOverwrite(gens, k, genStatus, genOutput, P0) ==
    Eager(P0, LAMBDA P :
        IF k > Len(gens) THEN P
        ELSE InjectGenerationOverwrite(gens, k + 1, genStatus, genOutput,
                 IF genStatus[gens[k].id]
                 THEN [P EXCEPT ![gens[k].busId] = genOutput[gens[k].id]]
                 ELSE P))

\* "sum generation per bus": the forEach over data.generators[k..]
RECURSIVE InjectGeneration(_, _, _, _, _)
InjectGeneration(gens, k, genStatus, genOutput, P0) ==
    Eager(P0, LAMBDA P :
        IF k > Len(gens) THEN P
        ELSE InjectGeneration(gens, k + 1, genStatus, genOutput,
                 IF genStatus[gens[k].id]
                 THEN [P EXCEPT ![gens[k].busId] = Add[@, genOutput[gens[k].id]]]
                 ELSE P))

\* the injections with the mismatch of the hour assigned to the slack bus
NetInjectionSlackBalanced(gens, busLoads, genStatus, genOutput) ==
    Eager(InjectGeneration(gens, 1, genStatus, genOutput,
                           [i \in 1..Len(busLoads) |-> R(0)]),
          LAMBDA P :
    Eager([i \in 1..Len(busLoads) |-> Sub[P[i], busLoads[i]]], LAMBDA net :
        [net EXCEPT ![slackBusIdx + 1] = Sub[@, SumSeq(net, 1, R(0))]]))

\* P_inj = P_gen - P_load
NetInjection(gens, busLoads, genStatus, genOutput) ==
    Eager(InjectGeneration(gens, 1, genStatus, genOutput,
                           [i \in 1..Len(busLoads) |-> R(0)]),
          LAMBDA P : [i \in 1..Len(busLoads) |-> Sub[P[i], busLoads[i]]])

\* the last bus taken as the reference in place of the first
FullAnglesLastReference(numBuses, angles_reduced) ==
    [i \in 1..numBuses |-> IF i = numBuses THEN R(0) ELSE angles_reduced[i]]

\* "reconstruct full angles array"
FullAngles(numBuses, angles_reduced) ==
    [i \in 1..numBuses |->
        IF i - 1 = slackBusIdx THEN R(0)
        ELSE angles_reduced[IF i - 1 < slackBusIdx THEN i ELSE i - 1]]

\* the angle difference multiplied by the reactance
LineFlowTimesReactance(line, angles) ==
    Mul[Mul[Sub[angles[line.fromBus], angles[line.toBus]], line.reactance],
        R(BaseMVA)]

\* (angles[fromIdx] - angles[toIdx]) / line.reactance * 100
LineFlow(line, angles) ==
    Mul[Div[Sub[angles[line.fromBus], angles[line.toBus]], line.reactance],
        R(BaseMVA)]

LineLoading(line, flow) == Mul[Div[Abs[flow], line.capacity], R(100)]

\* loading >= 100
OverloadedInclusive(loading) == Le[R(100), loading]

\* loading > 100
Overloaded(loading) == Gt[loading, R(100)]

\* floor of the rational n/d, d > 0
Floor[n \in Int, d \in Nat] == IF n >= 0 THEN n \div d ELSE -((-n + d - 1) \div d)

\* Number.prototype.toFixed(1): the number of tenths nearest to a, the one
\* farther from zero on a tie; the special values print as themselves
ToFixed1[a \in Num] ==
    IF ~IsFinite(a) THEN a
    ELSE IF a[1] < 0 THEN Norm[-Floor[20 * (-a[1]) + a[2], 2 * a[2]], 10]
    ELSE Norm[Floor[20 * a[1] + a[2], 2 * a[2]], 10]

\* the alert text: its three interpolated values
Alert(line, loading) ==
    [fromBus |-> line.fromBus, toBus |-> line.toBus, percent |-> ToFixed1[loading]]

\* "calculate line flows": the forEach over data.lines[k..]; its body assigns
\* lineFlows, lineLoading and alerts, and leaves genOutput as the dispatch set it
RECURSIVE LineResults(_, _, _, _)
LineResults(lines, k, angles, acc0) ==
    Eager(acc0, LAMBDA acc :
        IF k > Len(lines) THEN acc
        ELSE Eager(LineFlow(lines[k], angles), LAMBDA flow :
             Eager(LineLoading(lines[k], flow), LAMBDA loading :
                 LineResults(lines, k + 1, angles,
                     [genOutput |-> acc.genOutput,
                      lineFlows |-> (lines[k].id :> flow) @@ acc.lineFlows,
                      lineLoading |-> (lines[k].id :> loading) @@ acc.lineLoading,
                      alerts |-> IF Overloaded(loading)
                                 THEN Append(acc.alerts, Alert(lines[k], loading))
                                 ELSE acc.alerts]))))

\* committedGens.find(g => genOutput[g.id] > g.pMin && genOutput[g.id] < g.pMax):
\* the 1-based index of the first match from k on, 0 when there is none
RECURSIVE FindMarginal(_, _, _)
FindMarginal(committedGens, k, genOutput) ==
    IF k > Len(committedGens) THEN 0
    ELSE IF /\ Gt[genOutput[committedGens[k].id], committedGens[k].pMin]
            /\ Lt[genOutput[committedGens[k].id], committedGens[k].pMax]
         THEN k
         ELSE FindMarginal(committedGens, k + 1, genOutput)

\* the price of the last committed generator, whatever the outputs are
SystemLambdaOfLast(committedGens, genOutput) ==
    IF Len(committedGens) > 0 THEN committedGens[Len(committedGens)].costB
    ELSE R(0)

\* marginalGen ? marginalGen.costB : 0
SystemLambda(committedGens, genOutput) ==
    Eager(FindMarginal(committedGens, 1, genOutput), LAMBDA found :
        IF found > 0 THEN committedGens[found].costB
        ELSE IF Len(committedGens) > 0
             THEN committedGens[Len(committedGens)].costB
        ELSE R(0))

\* the factor of the hour before h (of hour 0 for h = 0)
loadFactorOfPreviousHour(d, h) == d.loadProfile[IF h = 0 THEN 1 ELSE h]

\* data.loadProfile[h]
loadFactor(d, h) == d.loadProfile[h + 1]

\* load scaling and unit commitment of the iteration for hour h
Commitment(d, h) ==
    Eager([i \in 1..Len(d.buses) |->
              Mul[d.buses[i].baseLoad, loadFactor(d, h)]], LAMBDA busLoads :
    Eager(SumSeq(busLoads, 1, R(0)), LAMBDA totalLoad :
    Eager(CommitmentSort(d.generators), LAMBDA cs :
        [busLoads |-> busLoads,
         totalLoad |-> totalLoad,
         generators |-> cs.input,
         genStatus |-> Commit(cs.sorted, 1, Mul[totalLoad, <<11, 10>>],
                              [committedCap |-> R(0), genStatus |-> EmptyObject])])))

\* economic dispatch, for the commitment uc
Dispatch(uc) ==
    Eager(DispatchOrder(uc.generators, uc.genStatus), LAMBDA committedGens :
    Eager(SetToPMin(committedGens, 1,
                    [genOutput |-> EmptyObject, remainingLoad |-> uc.totalLoad,
                     systemCost |-> R(0)]), LAMBDA floor :
    Eager(Fill(committedGens, 1, floor), LAMBDA disp :
        [committedGens |-> committedGens,
         genOutput |-> disp.genOutput,
         systemCost |-> disp.systemCost])))

\* injections, the solve with its fallback, the angles
PowerFlow(uc, ed, numBuses, Bred) ==
    Eager(NetInjection(uc.generators, uc.busLoads, uc.genStatus, ed.genOutput),
          LAMBDA Pinj :
    Eager(DropSlack(Pinj), LAMBDA P_red :
    Eager(solveLinearSystem(Bred, [i \in 1..Len(P_red) |-> Div[P_red[i], R(BaseMVA)]]),
          LAMBDA solved :
        [P_inj |-> Pinj,
         P_reduced_pu |-> solved.b,
         B_reduced |-> solved.A,
         angles |-> FullAngles(numBuses,
                        IF solved.threw THEN [i \in 1..(numBuses - 1) |-> R(0)]
                        ELSE solved.result)])))

\* the body of the hour loop for hour h on the system definition d with the
\* reduced matrix Bred: the record pushed, the locals the properties are
\* about, and the arrays d.generators and B_reduced after the iteration
HourBody(d, Bred, h) ==
    Eager(Commitment(d, h), LAMBDA uc :
    Eager(Dispatch(uc), LAMBDA ed :
    Eager(PowerFlow(uc, ed, Len(d.buses), Bred), LAMBDA pf :
    Eager(LineResults(d.lines, 1, pf.angles,
              [genOutput |-> ed.genOutput, lineFlows |-> EmptyObject,
               lineLoading |-> EmptyObject, alerts |-> <<>>]), LAMBDA lr :
    Eager(SystemLambda(ed.committedGens, ed.genOutput), LAMBDA systemLambda :
        [record |-> [hour |-> h,
                     totalLoad |-> uc.totalLoad,
                     genStatus |-> uc.genStatus,
                     genOutput |-> lr.genOutput,
                     lineFlows |-> lr.lineFlows,
                     lineLoading |-> lr.lineLoading,
                     systemCost |-> ed.systemCost,
                     lmp |-> [id \in {d.buses[i].id : i \in 1..Len(d.buses)} |->
                                 systemLambda],
                     alerts |-> lr.alerts],
         P_inj |-> pf.P_inj,
         P_reduced_pu |-> pf.P_reduced_pu,
         angles |-> pf.angles,
         generators |-> uc.generators,
         B_reduced |-> pf.B_reduced])))))

----------------------------------------------------------------------------
(* System definitions.  The fields the engine never reads (names, layout    *)
(* coordinates, costA, startUpCost, colours) are left out.                  *)

Bus(id, type, baseLoad) == [id |-> id, type |-> type, baseLoad |-> R(baseLoad)]

Gen(id, busId, pMin, pMax, costB, costC) ==
    [id |-> id, busId |-> busId, pMin |-> R(pMin), pMax |-> R(pMax),
     costB |-> R(costB), costC |-> R(costC)]

Line(id, fromBus, toBus, reactance, capacity) ==
    [id |-> id, fromBus |-> fromBus, toBus |-> toBus,
     reactance |-> reactance, capacity |-> R(capacity)]

\* INITIAL_DATA.loadProfile, in hundredths
InitialProfile ==
    <<60, 55, 50, 50, 55, 65, 80, 90, 100, 110, 115, 120,
      120, 115, 110, 110, 120, 130, 125, 110, 100, 90, 80, 70>>

Profile(hundredths) == [h \in 1..Hours |-> Norm[hundredths[h], 100]]

\* a profile that repeats 0, 0.5, 1.0, 1.5, 2.0
StepProfile == [h \in 1..Hours |-> Norm[(h - 1) % 5, 2]]

FlatProfile == [h \in 1..Hours |-> R(1)]

BusSets ==
    { <<Bus(1, "Slack", 0), Bus(2, "PQ", 100), Bus(3, "PQ", 0)>>,
      <<Bus(1, "PQ", 50), Bus(2, "PV", 60), Bus(3, "Slack", 40)>> }

GeneratorSets ==
    { <<Gen("G1", 1, 0, 1000, 10, 0)>>,
      <<Gen("G1", 1, 50, 600, 20, 100), Gen("G2", 3, 20, 400, 45, 50),
        Gen("G3", 2, 10, 200, 80, 0)>>,
      <<Gen("G1", 2, 10, 40, 30, 0), Gen("G2", 1, 20, 20, 30, 60)>>,
      <<Gen("G1", 3, 5, 50, 10, 1000), Gen("G2", 2, 0, 100, 20, 0),
        Gen("G3", 2, 10, 100, 20, 0)>>,
      <<Gen("G1", 1, 10, 60, 40, 0), Gen("G2", 2, 5, 80, 15, 20),
        Gen("G3", 3, 0, 30, 25, 0)>> }

Capacities == {100, 500}

\* the chain, the triangle, and three networks with an isolated bus
LineSets(cap) ==
    { <<Line("L1-2", 1, 2, <<1, 10>>, cap), Line("L2-3", 2, 3, <<1, 10>>, cap)>>,
      <<Line("L1-2", 1, 2, <<1, 10>>, cap), Line("L2-3", 2, 3, <<1, 10>>, cap),
        Line("L3-1", 3, 1, <<1, 5>>, cap)>>,
      <<Line("L1-2", 1, 2, <<1, 10>>, cap)>>,
      <<Line("L1-3", 1, 3, <<1, 5>>, cap)>>,
      <<Line("L2-3", 2, 3, <<1, 10>>, cap)>> }

LoadProfiles == {FlatProfile, Profile(InitialProfile), StepProfile}

SystemDefinitions ==
    { [buses |-> b, generators |-> g, lines |-> l, loadProfile |-> p] :
        b \in BusSets, g \in GeneratorSets,
        l \in UNION {LineSets(c) : c \in Capacities}, p \in LoadProfiles }

----------------------------------------------------------------------------
(* The state: the App component's state (data, simulationResult,           *)
(* currentHour), the position of the effect that calls runSimulation, and   *)
(* the locals of the call in progress.                                      *)

VARIABLES
    data,              \* App: the system definition
    simulationResult,  \* App: the value the last call returned
    currentHour,       \* App: the hour the time slider shows
    pc,                \* "effect": the effect is due; "hours": in the hour
                       \* loop; "idle": the effect has run
    h,                 \* runSimulation: the loop index
    results,           \* runSimulation: the records pushed so far
    B_reduced,         \* runSimulation: the reduced susceptance matrix
    P_inj,             \* the last iteration's net injections
    P_reduced_pu,      \* the last iteration's right-hand side, after the solve
    angles,            \* the last iteration's angles
    edits,             \* number of edits made in the App so far
    loggedCall,        \* history: the argument and the value of an earlier call
    solveA,            \* solver test: the matrix
    solveX,            \* solver test: the known solution
    solveOut           \* solver test: what solveLinearSystem returned

vars == <<data, simulationResult, currentHour, pc, h, results, B_reduced,
          P_inj, P_reduced_pu, angles, edits, loggedCall, solveA, solveX,
          solveOut>>

solverVars == <<solveA, solveX, solveOut>>

MaxEdits == 2

NoCall == [made |-> FALSE, at |-> 0]

\* a results array that outlives the call
StaleResults == results

\* const results = []
NewResults == <<>>

InitApp(definitions) ==
    /\ data \in definitions
    /\ simulationResult = <<>>
    /\ currentHour = 12
    /\ pc = "effect"
    /\ h = 0
    /\ results = <<>>
    /\ B_reduced = <<>>
    /\ P_inj = <<>>
    /\ P_reduced_pu = <<>>
    /\ angles = <<>>
    /\ edits = 0
    /\ loggedCall = NoCall
    /\ solveA = <<>>
    /\ solveX = <<>>
    /\ solveOut = <<>>

Init == InitApp(SystemDefinitions)

\* runSimulation(data) is entered: the statements before the hour loop
RunStart ==
    /\ pc = "effect"
    /\ results' = NewResults
    /\ B_reduced' = ReduceMatrix(BMatrix(data))
    /\ h' = 0
    /\ pc' = "hours"
    /\ P_inj' = <<>>
    /\ P_reduced_pu' = <<>>
    /\ angles' = <<>>
    /\ UNCHANGED <<data, simulationResult, currentHour, edits, loggedCall>>
    /\ UNCHANGED solverVars

\* one iteration of the hour loop
HourStep ==
    /\ pc = "hours"
    /\ h < Hours
    /\ \E hb \in {HourBody(data, B_reduced, h)} :
           /\ results' = Append(results, hb.record)
           /\ data' = [data EXCEPT !.generators = hb.generators]
           /\ B_reduced' = hb.B_reduced
           /\ P_inj' = hb.P_inj
           /\ P_reduced_pu' = hb.P_reduced_pu
           /\ angles' = hb.angles
    /\ h' = h + 1
    /\ UNCHANGED <<simulationResult, currentHour, pc, edits, loggedCall>>
    /\ UNCHANGED solverVars

\* return results; setSimulationResult(results).  The history variable keeps
\* the call it holds or takes this one.
RunReturn ==
    /\ pc = "hours"
    /\ h = Hours
    /\ simulationResult' = results
    /\ pc' = "idle"
    /\ loggedCall' \in {loggedCall,
                        [made |-> TRUE, data |-> data, result |-> results,
                         at |-> edits]}
    /\ UNCHANGED <<data, currentHour, h, results, B_reduced, P_inj,
                   P_reduced_pu, angles, edits>>
    /\ UNCHANGED solverVars

Next == RunStart \/ HourStep \/ RunReturn

Spec == Init /\ [][Next]_vars

----------------------------------------------------------------------------
(* The App: the handlers of the controls.  A handler runs between renders,  *)
(* never inside a call of runSimulation; setData schedules the effect.  A   *)
(* range input reports a change only when its value changes.                *)

\* positions of the time slider
SliderHours == {0, 12}

\* values of the load slider (0.5 to 2.0)
EditFactors == {R(1), R(2)}

\* values of a cost slider (10 to 200)
EditCosts == {R(10), R(45)}

handleUpdateLoad(newFactor) ==
    /\ pc = "idle"
    /\ edits < MaxEdits
    /\ newFactor # data.loadProfile[currentHour + 1]
    /\ data' = [data EXCEPT !.loadProfile[currentHour + 1] = newFactor]
    /\ pc' = "effect"
    /\ edits' = edits + 1
    /\ UNCHANGED <<simulationResult, currentHour, h, results, B_reduced, P_inj,
                   P_reduced_pu, angles, loggedCall>>
    /\ UNCHANGED solverVars

handleUpdateGenCost(k, newCost) ==
    /\ pc = "idle"
    /\ edits < MaxEdits
    /\ newCost # data.generators[k].costB
    /\ data' = [data EXCEPT !.generators =
                   [j \in 1..Len(data.generators) |->
                       IF data.generators[j].id = data.generators[k].id
                       THEN [data.generators[j] EXCEPT !.costB = newCost]
                       ELSE data.generators[j]]]
    /\ pc' = "effect"
    /\ edits' = edits + 1
    /\ UNCHANGED <<simulationResult, currentHour, h, results, B_reduced, P_inj,
                   P_reduced_pu, angles, loggedCall>>
    /\ UNCHANGED solverVars

setCurrentHour(e) ==
    /\ pc = "idle"
    /\ e # currentHour
    /\ currentHour' = e
    /\ UNCHANGED <<data, simulationResult, pc, h, results, B_reduced, P_inj,
                   P_reduced_pu, angles, edits, loggedCall>>
    /\ UNCHANGED solverVars

UpdateLoad == \E f \in EditFactors : handleUpdateLoad(f)

UpdateGenCost ==
    \E k \in 1..Len(data.generators), c \in EditCosts : handleUpdateGenCost(k, c)

MoveSlider == \E e \in SliderHours : setCurrentHour(e)

\* the system definitions the App specification starts from: the chain with
\* one generator, the triangle with INITIAL_DATA's generators and profile,
\* and a network whose bus 3 is isolated
AppDefinitions ==
    { [buses |-> <<Bus(1, "Slack", 0), Bus(2, "PQ", 100), Bus(3, "PQ", 0)>>,
       generators |-> <<Gen("G1", 1, 0, 1000, 10, 0)>>,
       lines |-> <<Line("L1-2", 1, 2, <<1, 10>>, 500),
                   Line("L2-3", 2, 3, <<1, 10>>, 500)>>,
       loadProfile |-> FlatProfile],
      [buses |-> <<Bus(1, "PQ", 50), Bus(2, "PV", 60), Bus(3, "Slack", 40)>>,
       generators |-> <<Gen("G1", 1, 50, 600, 20, 100), Gen("G2", 3, 20, 400, 45, 50),
                        Gen("G3", 2, 10, 200, 80, 0)>>,
       lines |-> <<Line("L1-2", 1, 2, <<1, 10>>, 100),
                   Line("L2-3", 2, 3, <<1, 10>>, 100),
                   Line("L3-1", 3, 1, <<1, 5>>, 100)>>,
       loadProfile |-> Profile(InitialProfile)],
      [buses |-> <<Bus(1, "Slack", 0), Bus(2, "PQ", 100), Bus(3, "PQ", 0)>>,
       generators |-> <<Gen("G1", 2, 10, 40, 30, 0), Gen("G2", 1, 20, 20, 30, 60)>>,
       lines |-> <<Line("L1-2", 1, 2, <<1, 10>>, 100)>>,
       loadProfile |-> StepProfile] }

InitAppSpec == InitApp(AppDefinitions)

NextApp ==
    RunStart \/ HourStep \/ RunReturn \/ UpdateLoad \/ UpdateGenCost \/ MoveSlider

SpecApp == InitAppSpec /\ [][NextApp]_vars

----------------------------------------------------------------------------
(* The solver on its own: solveLinearSystem(A, A.x) for known A and x *)

MaxEntry == 2

\* 2x2 matrices with entries -MaxEntry..MaxEntry, and 3x3 matrices with
\* entries in {-1, 0, 2} whose last row is one of three
TestMatrices ==
    [1..2 -> [1..2 -> {R(e) : e \in -MaxEntry..MaxEntry}]]
    \cup { <<r1, r2, r3>> : r1 \in [1..3 -> {R(-1), R(0), R(2)}],
                            r2 \in [1..3 -> {R(-1), R(0), R(2)}],
                            r3 \in {<<R(0), R(2), R(-1)>>, <<R(2), R(2), R(2)>>,
                                    <<R(-1), R(0), R(0)>>} }

TestVectors(n) ==
    IF n = 2 THEN [1..2 -> {R(-1), R(0), <<3, 2>>}]
    ELSE {<<R(1), R(-1), R(2)>>, <<R(0), <<1, 3>>, R(-2)>>}

\* the product A.x
MatVec(A, x) == [i \in 1..Len(A) |-> RowDot(A[i], x, 1, R(0))]

\* A without row 1 and column j
Minor(A, j) ==
    [r \in 1..(Len(A) - 1) |->
        [c \in 1..(Len(A) - 1) |-> A[r + 1][IF c < j THEN c ELSE c + 1]]]

\* the cofactors of row 1 from column j on, added to acc0
RECURSIVE Det(_)
RECURSIVE Cofactors(_, _, _)
Cofactors(A, j, acc0) ==
    Eager(acc0, LAMBDA acc :
        IF j > Len(A) THEN acc
        ELSE Cofactors(A, j + 1,
                 Add[acc, Mul[IF j % 2 = 1 THEN A[1][j] ELSE Neg[A[1][j]],
                              Det(Minor(A, j))]]))

\* the determinant, by expansion along the first row
Det(A0) ==
    Eager(A0, LAMBDA A :
        IF Len(A) = 0 THEN R(1)
        ELSE IF Len(A) = 1 THEN A[1][1]
        ELSE Cofactors(A, 1, R(0)))

InitSolve ==
    /\ data \in AppDefinitions
    /\ simulationResult = <<>>
    /\ currentHour = 12
    /\ pc = "solve"
    /\ h = 0
    /\ results = <<>>
    /\ B_reduced = <<>>
    /\ P_inj = <<>>
    /\ P_reduced_pu = <<>>
    /\ angles = <<>>
    /\ edits = 0
    /\ loggedCall = NoCall
    /\ solveA \in TestMatrices
    /\ solveX \in TestVectors(Len(solveA))
    /\ solveOut = <<>>

\* solveLinearSystem(A, b) with b = A.x
SolveStep ==
    /\ pc = "solve"
    /\ solveOut' = solveLinearSystem(solveA, MatVec(solveA, solveX))
    /\ pc' = "solved"
    /\ UNCHANGED <<data, simulationResult, currentHour, h, results, B_reduced,
                   P_inj, P_reduced_pu, angles, edits, loggedCall, solveA, solveX>>

NextSolve == SolveStep

SpecSolve == InitSolve /\ [][NextSolve]_vars

----------------------------------------------------------------------------
(* Properties *)

\* an iteration of the hour loop has completed; results[h] is its record
InHour == pc = "hours" /\ h > 0

GenIdx == 1..Len(data.generators)

LineIdx == 1..Len(data.lines)

\* the outputs of the committed generators that satisfy At, summed
CommittedOutput(r, At(_)) ==
    SumSeq([k \in GenIdx |->
               IF r.genStatus[data.generators[k].id] /\ At(data.generators[k])
               THEN r.genOutput[data.generators[k].id] ELSE R(0)], 1, R(0))

\* (C1) When the reduced susceptance matrix is singular, the hour's angles of
\* the non-slack buses are all 0 and the flow on every line is exactly 0.
C1_SingularGivesZeroFlows ==
    (InHour /\ Det(B_reduced) = R(0)) =>
        /\ \A i \in 2..Len(angles) : angles[i] = R(0)
        /\ \A k \in LineIdx : results[h].lineFlows[data.lines[k].id] = R(0)

\* (C2) A call returns exactly 24 records, and the record at position k has
\* hour = k (k = 0..23); the records pushed so far are numbered the same way.
C2_TwentyFourHoursInOrder ==
    /\ \A k \in 1..Len(results) : results[k].hour = k - 1
    /\ pc = "idle" =>
          /\ Len(simulationResult) = 24
          /\ \A k \in 1..24 : simulationResult[k].hour = k - 1

C2_Witness == pc = "idle" /\ Len(simulationResult) = 24 /\ simulationResult[24].hour = 23

\* (C3) Given pMin <= pMax for every generator and a non-negative total load,
\* every committed generator's output lies in [pMin, pMax].
C3_OutputWithinLimits ==
    (/\ InHour
     /\ \A k \in GenIdx : Le[data.generators[k].pMin, data.generators[k].pMax]
     /\ Le[R(0), results[h].totalLoad]) =>
        \A k \in GenIdx :
            results[h].genStatus[data.generators[k].id] =>
                /\ Le[data.generators[k].pMin,
                      results[h].genOutput[data.generators[k].id]]
                /\ Le[results[h].genOutput[data.generators[k].id],
                      data.generators[k].pMax]

\* one committed generator is at its pMax and another strictly inside its range
C3_Witness ==
    /\ InHour
    /\ \E k1 \in GenIdx, k2 \in GenIdx :
          /\ results[h].genStatus[data.generators[k1].id]
          /\ results[h].genStatus[data.generators[k2].id]
          /\ results[h].genOutput[data.generators[k1].id] = data.generators[k1].pMax
          /\ Lt[data.generators[k2].pMin, results[h].genOutput[data.generators[k2].id]]
          /\ Lt[results[h].genOutput[data.generators[k2].id], data.generators[k2].pMax]

\* (C4) Given that every generator's busId names a bus, the net injections of
\* all buses sum to the committed generators' outputs minus totalLoad.
C4_InjectionBalance ==
    (/\ InHour
     /\ \A k \in GenIdx : data.generators[k].busId \in 1..Len(data.buses)) =>
        SumSeq(P_inj, 1, R(0)) =
            Sub[CommittedOutput(results[h], LAMBDA g : TRUE), results[h].totalLoad]

\* two committed generators share a bus and the hour is short of generation
C4_Witness ==
    /\ InHour
    /\ Lt[SumSeq(P_inj, 1, R(0)), R(0)]
    /\ \E k1 \in GenIdx, k2 \in GenIdx :
          /\ k1 # k2
          /\ data.generators[k1].busId = data.generators[k2].busId
          /\ results[h].genStatus[data.generators[k1].id]
          /\ results[h].genStatus[data.generators[k2].id]

\* (C5) In every hour the angle of the bus at index 0 is exactly 0, whatever
\* its type tag and whatever the solve returned.
C5_SlackAngleZero == InHour => angles[slackBusIdx + 1] = R(0)

\* the solve returned NaN and the first bus is not tagged Slack
C5_Witness ==
    /\ InHour
    /\ angles[1] = R(0)
    /\ data.buses[1].type # "Slack"
    /\ \E i \in 2..Len(angles) : angles[i] = NaN

\* (C6) A call on a system definition equal to that of an earlier call returns
\* the same records as the earlier call did.
C6_SameInputSameOutput ==
    (pc = "idle" /\ loggedCall.made /\ loggedCall.data = data) =>
        simulationResult = loggedCall.result

\* the first call and the third are on the same definition, the second is not
C6_Witness ==
    /\ pc = "idle"
    /\ loggedCall.made
    /\ loggedCall.at = 0
    /\ edits = 2
    /\ loggedCall.data = data
    /\ simulationResult = loggedCall.result

\* (C7) No step of a call changes the system definition: buses, generators
\* and their order, lines and load profile stay as they were.
C7_InputUnchanged == [][pc # "idle" => data' = data]_vars

\* a call has returned on generators that are not in commitment order
C7_Witness ==
    /\ pc = "idle"
    /\ Len(simulationResult) = 24
    /\ SortByAvgCost(data.generators) # data.generators

\* the right-hand side the iteration for P_inj hands to the solver
RightHandSide(P) ==
    [i \in 1..(Len(P) - 1) |-> Div[DropSlack(P)[i], R(BaseMVA)]]

\* (C8) The solve of an iteration leaves its arguments as they were: B_reduced
\* has the same entries before and after every iteration, and the right-hand
\* side after the solve is the one computed from the injections.
C8_SolverArgumentsUnchanged ==
    [][(pc = "hours" /\ h < 24) =>
          /\ B_reduced' = B_reduced
          /\ P_reduced_pu' = RightHandSide(P_inj')]_vars

\* all iterations are done on a matrix and a right-hand side that the
\* elimination has to change in its working copies
C8_Witness ==
    /\ pc = "hours"
    /\ h = 24
    /\ B_reduced = ReduceMatrix(BMatrix(data))
    /\ Len(B_reduced) = 2
    /\ B_reduced[2][1] # R(0)
    /\ P_reduced_pu[1] # R(0)

\* (C9) For a nonsingular matrix A and a vector x, solveLinearSystem(A, A.x)
\* returns x.
C9_SolveRoundTrip ==
    (pc = "solved" /\ Det(solveA) # R(0)) => solveOut.result = solveX

\* a 3x3 system whose first pivot column has 0 on the diagonal
C9_Witness ==
    /\ pc = "solved"
    /\ Len(solveA) = 3
    /\ solveA[1][1] = R(0)
    /\ Det(solveA) # R(0)
    /\ solveOut.result = solveX

\* the lines whose loading, computed from the recorded flow, exceeds 100
OverloadedLines(r) ==
    SelectSeq(data.lines,
              LAMBDA l : Gt[Mul[Div[Abs[r.lineFlows[l.id]], l.capacity], R(100)],
                            R(100)])

\* (C10) The alerts of an hour are one per line whose loading
\* |flow| / capacity * 100 is strictly above 100, in line order, each with the
\* line's fromBus and toBus; and the recorded generator outputs are those the
\* injections were computed from.
C10_AlertsExactlyOverloads ==
    InHour =>
        /\ \A k \in LineIdx :
              results[h].lineLoading[data.lines[k].id] =
                  Mul[Div[Abs[results[h].lineFlows[data.lines[k].id]],
                          data.lines[k].capacity], R(100)]
        /\ Len(results[h].alerts) = Len(OverloadedLines(results[h]))
        /\ \A k \in 1..Len(results[h].alerts) :
              /\ results[h].alerts[k].fromBus = OverloadedLines(results[h])[k].fromBus
              /\ results[h].alerts[k].toBus = OverloadedLines(results[h])[k].toBus
        /\ \A b \in 1..Len(data.buses) :
              P_inj[b] =
                  Sub[CommittedOutput(results[h], LAMBDA g : g.busId = b),
                      Mul[data.buses[b].baseLoad, data.loadProfile[h]]]

\* some lines of the hour are overloaded and some are not
C10_Witness ==
    /\ InHour
    /\ Len(results[h].alerts) > 0
    /\ Len(results[h].alerts) < Len(data.lines)

\* the call is on the 3-bus chain with one generator at the slack bus, and the
\* hour just computed has load factor 1.0
ChainScenario ==
    /\ InHour
    /\ data.buses = <<Bus(1, "Slack", 0), Bus(2, "PQ", 100), Bus(3, "PQ", 0)>>
    /\ data.generators = <<Gen("G1", 1, 0, 1000, 10, 0)>>
    /\ data.lines = <<Line("L1-2", 1, 2, <<1, 10>>, 500),
                      Line("L2-3", 2, 3, <<1, 10>>, 500)>>
    /\ data.loadProfile[h] = R(1)

\* (C11) On the 3-bus chain (reactance 0.1, capacity 500) with one generator
\* (pMin 0, pMax 1000, costB 10) at the slack bus, 100 MW of load at bus 2 and
\* load factor 1.0, the record has the generator committed, its output exactly
\* 100, both loadings below 100, no alerts and a price of 10 at every bus.
C11_ChainRecord ==
    ChainScenario =>
        /\ results[h].genStatus["G1"]
        /\ results[h].genOutput["G1"] = R(100)
        /\ \A k \in LineIdx : Lt[results[h].lineLoading[data.lines[k].id], R(100)]
        /\ results[h].alerts = <<>>
        /\ DOMAIN results[h].lmp = {1, 2, 3}
        /\ \A b \in 1..3 : results[h].lmp[b] = R(10)

\* the scenario's record: line 1-2 carries the 100 MW at a loading of 20,
\* line 2-3 carries nothing
C11_Witness ==
    /\ ChainScenario
    /\ results[h].totalLoad = R(100)
    /\ results[h].lineFlows["L1-2"] = R(100)
    /\ results[h].lineLoading["L1-2"] = R(20)
    /\ results[h].lineFlows["L2-3"] = R(0)

\* (costB * pMax + costC) / pMax of the k-th generator of the definition
AverageCostAt(k) ==
    Div[Add[Mul[data.generators[k].costB, data.generators[k].pMax],
            data.generators[k].costC],
        data.generators[k].pMax]

\* generator j stands before generator k in the ascending order of average
\* cost with ties in input order
StandsBefore(j, k) ==
    \/ Lt[AverageCostAt(j), AverageCostAt(k)]
    \/ AverageCostAt(j) = AverageCostAt(k) /\ j < k

\* the 1-based position of generator k in that order
RankByAverageCost(k) == 1 + Cardinality({j \in GenIdx : StandsBefore(j, k)})

\* the summed pMax of the first m generators of that order
PrefixCapacity(m) ==
    SumSeq([k \in GenIdx |->
               IF RankByAverageCost(k) <= m THEN data.generators[k].pMax ELSE R(0)],
           1, R(0))

\* the length of the shortest prefix whose capacity is at least target, the
\* number of generators when there is none
ShortestPrefix(target) ==
    IF \E m \in 0..Len(data.generators) : Le[target, PrefixCapacity(m)]
    THEN CHOOSE m \in 0..Len(data.generators) :
             /\ Le[target, PrefixCapacity(m)]
             /\ \A m2 \in 0..(m - 1) : ~Le[target, PrefixCapacity(m2)]
    ELSE Len(data.generators)

\* 1.10 times the sum of baseLoad times the factor of the hour just computed
ReserveTarget ==
    Mul[SumSeq([i \in 1..Len(data.buses) |->
                   Mul[data.buses[i].baseLoad, data.loadProfile[h]]], 1, R(0)),
        <<11, 10>>]

IsCommitted(k) == results[h].genStatus[data.generators[k].id]

\* its recorded output
OutputOf(k) == results[h].genOutput[data.generators[k].id]

\* generator j stands before generator k in the ascending order of costB with
\* ties in input order
DispatchedBefore(j, k) ==
    \/ Lt[data.generators[j].costB, data.generators[k].costB]
    \/ data.generators[j].costB = data.generators[k].costB /\ j < k

\* the summed pMin, and the summed pMax, of the committed generators
CommittedPMin ==
    SumSeq([k \in GenIdx |-> IF IsCommitted(k) THEN data.generators[k].pMin ELSE R(0)],
           1, R(0))

CommittedPMax ==
    SumSeq([k \in GenIdx |-> IF IsCommitted(k) THEN data.generators[k].pMax ELSE R(0)],
           1, R(0))

\* the summed outputs of the committed generators
CommittedTotal ==
    SumSeq([k \in GenIdx |-> IF IsCommitted(k) THEN OutputOf(k) ELSE R(0)], 1, R(0))

\* (C13) In every hour the dispatch is a merit-order fill over the committed
\* generators in ascending order of costB: a committed generator's output is
\* above its pMin only if every committed generator earlier in that order is
\* at its pMax, and when the total load lies between the summed pMin and the
\* summed pMax of the committed generators, the outputs sum to the total load.
C13_MeritOrderFill ==
    InHour =>
        /\ \A k \in GenIdx :
              (IsCommitted(k) /\ Gt[OutputOf(k), data.generators[k].pMin]) =>
                  \A j \in GenIdx :
                      (IsCommitted(j) /\ DispatchedBefore(j, k)) =>
                          OutputOf(j) = data.generators[j].pMax
        /\ (/\ Le[CommittedPMin, results[h].totalLoad]
            /\ Le[results[h].totalLoad, CommittedPMax]) =>
               CommittedTotal = results[h].totalLoad

\* three generators are committed and the load lies inside their range: the
\* cheapest, which is last in commitment order, is full, and of two with the
\* same costB the earlier is full and the later strictly inside its range
C13_Witness ==
    /\ InHour
    /\ Lt[CommittedPMin, results[h].totalLoad]
    /\ Lt[results[h].totalLoad, CommittedPMax]
    /\ CommittedTotal = results[h].totalLoad
    /\ \A k \in GenIdx : IsCommitted(k)
    /\ \E i \in GenIdx, j \in GenIdx, k \in GenIdx :
          /\ RankByAverageCost(i) = 3
          /\ DispatchedBefore(i, j)
          /\ OutputOf(i) = data.generators[i].pMax
          /\ j < k
          /\ data.generators[j].costB = data.generators[k].costB
          /\ OutputOf(j) = data.generators[j].pMax
          /\ Gt[OutputOf(k), data.generators[k].pMin]
          /\ Lt[OutputOf(k), data.generators[k].pMax]

\* generator k is committed with an output strictly between pMin and pMax
IsMarginal(k) ==
    /\ IsCommitted(k)
    /\ Gt[OutputOf(k), data.generators[k].pMin]
    /\ Lt[OutputOf(k), data.generators[k].pMax]

\* the price the hour's outputs call for
ExpectedPrice ==
    IF \E k \in GenIdx : IsMarginal(k)
    THEN data.generators[CHOOSE k \in GenIdx :
             /\ IsMarginal(k)
             /\ \A j \in GenIdx : IsMarginal(j) => ~DispatchedBefore(j, k)].costB
    ELSE IF \E k \in GenIdx : IsCommitted(k)
    THEN data.generators[CHOOSE k \in GenIdx :
             /\ IsCommitted(k)
             /\ \A j \in GenIdx : IsCommitted(j) => ~DispatchedBefore(k, j)].costB
    ELSE R(0)

SameButProfile ==
    /\ pc = "idle"
    /\ loggedCall.made
    /\ loggedCall.data.buses = data.buses
    /\ loggedCall.data.generators = data.generators
    /\ loggedCall.data.lines = data.lines

\* (C15) The record of hour k depends on the load profile only through
\* loadProfile[k]: two calls on definitions that differ only in the load
\* factors of other hours return the same record for hour k, so a load edit
\* made for one hour changes at most that hour's record.
C15_HourDependsOnOwnFactor ==
    SameButProfile =>
        \A k \in 1..Hours :
            loggedCall.data.loadProfile[k] = data.loadProfile[k] =>
                simulationResult[k] = loggedCall.result[k]

\* the first call is logged, handleUpdateLoad has changed the factor of the
\* hour shown, and the call that followed returned a different record for
\* that hour and the same records for the other 23
C15_Witness ==
    /\ SameButProfile
    /\ loggedCall.at = 0
    /\ edits = 1
    /\ loggedCall.data.loadProfile[currentHour + 1] # data.loadProfile[currentHour + 1]
    /\ simulationResult[currentHour + 1] # loggedCall.result[currentHour + 1]
    /\ \A k \in 1..Hours :
          k # currentHour + 1 =>
              /\ loggedCall.data.loadProfile[k] = data.loadProfile[k]
              /\ simulationResult[k] = loggedCall.result[k]

\* the summed pMax of all generators of the definition
InstalledCapacity ==
    SumSeq([k \in GenIdx |-> data.generators[k].pMax], 1, R(0))

\* the hour just computed asks for more than all generators can give
Shortage == InHour /\ Lt[InstalledCapacity, results[h].totalLoad]

\* (C16) When the summed pMax of all generators is below the total load of an
\* hour, every generator is committed and dispatched at exactly its pMax, the
\* hour's record is pushed in its place, and the net injections of the buses
\* sum to the summed pMax minus the total load, which is negative.
C16_ShortageRunsAtFullOutput ==
    Shortage =>
        /\ \A k \in GenIdx :
              IsCommitted(k) /\ OutputOf(k) = data.generators[k].pMax
        /\ Len(results) = h
        /\ results[h].hour = h - 1
        /\ SumSeq(P_inj, 1, R(0)) = Sub[InstalledCapacity, results[h].totalLoad]
        /\ Lt[SumSeq(P_inj, 1, R(0)), R(0)]

\* a shortage hour with three generators, after an hour that had none: the
\* record before it and its own are both there
C16_Witness ==
    /\ Shortage
    /\ Len(data.generators) = 3
    /\ h > 1
    /\ ~Lt[InstalledCapacity, results[h - 1].totalLoad]
    /\ results[h].hour = h - 1
    /\ \A k \in GenIdx : OutputOf(k) = data.generators[k].pMax
    /\ Lt[SumSeq(P_inj, 1, R(0)), R(0)]

\* costC + costB * genOutput summed over the committed generators
CostOfOutputs ==
    SumSeq([k \in GenIdx |->
               IF IsCommitted(k)
               THEN Add[data.generators[k].costC,
                        Mul[data.generators[k].costB, OutputOf(k)]]
               ELSE R(0)], 1, R(0))

\* (C17) In every hour the reported systemCost is the sum over the committed
\* generators of costC + costB * genOutput: an uncommitted generator adds
\* nothing, and a committed one is charged its costC also when its output
\* stays at pMin.
C17_SystemCost == InHour => results[h].systemCost = CostOfOutputs

\* a generator with a fixed cost is committed and stays at its pMin, below
\* its pMax; another generator with a fixed cost is not committed
C17_Witness ==
    /\ InHour
    /\ results[h].systemCost = CostOfOutputs
    /\ \E k \in GenIdx, j \in GenIdx :
          /\ IsCommitted(k)
          /\ Gt[data.generators[k].costC, R(0)]
          /\ OutputOf(k) = data.generators[k].pMin
          /\ Lt[data.generators[k].pMin, data.generators[k].pMax]
          /\ ~IsCommitted(j)
          /\ Gt[data.generators[j].costC, R(0)]

\* the recorded flows on the lines leaving bus b minus those on the lines
\* entering it, in MW
NetOutflow(b) ==
    SumSeq([k \in LineIdx |->
               IF data.lines[k].fromBus = b
               THEN results[h].lineFlows[data.lines[k].id]
               ELSE IF data.lines[k].toBus = b
               THEN Neg[results[h].lineFlows[data.lines[k].id]]
               ELSE R(0)], 1, R(0))

\* the net injections of the buses other than the first, summed
InjectionOfOthers ==
    SumSeq([i \in 1..(Len(P_inj) - 1) |-> P_inj[i + 1]], 1, R(0))

\* (C18) For a network whose reduced matrix is nonsingular, the line flows of
\* every hour balance at every bus other than the slack bus (the first): the
\* flows leaving it minus the flows entering it equal its net injection in
\* MW.  The slack bus takes the remainder: its net outflow is minus the sum
\* of the other buses' injections, whatever its own injection is.
C18_NodalBalance ==
    (InHour /\ Det(B_reduced) # R(0)) =>
        /\ \A b \in 2..Len(data.buses) : NetOutflow(b) = P_inj[b]
        /\ NetOutflow(1) = Neg[InjectionOfOthers]

\* the triangle in an hour short of generation: every line carries a flow,
\* and the first bus sends out more than its own injection
C18_Witness ==
    /\ InHour
    /\ Det(B_reduced) # R(0)
    /\ Len(data.lines) = 3
    /\ \A k \in LineIdx : results[h].lineFlows[data.lines[k].id] # R(0)
    /\ \A b \in 2..Len(data.buses) : NetOutflow(b) = P_inj[b]
    /\ NetOutflow(1) = Neg[InjectionOfOthers]
    /\ Gt[NetOutflow(1), P_inj[1]]

====
